---- MODULE Spec2Model ----
(***************************************************************************)
(* State-machine model of the two client hooks of the satellite shared     *)
(* module:                                                                 *)
(*   - useDualHemisphere (DualHemisphereCore): federation health check,    *)
(*     primary reasoning call and sovereign failover, short-term window;   *)
(*   - useEdgeMemory: per-user memory, knowledge and session state with    *)
(*     remote synchronisation and a local-storage cache.                   *)
(* Every awaited remote call is split into the step that issues it and the *)
(* step that handles its outcome; the outcome (success, structured error,  *)
(* thrown exception) and the response body are inputs of the second step.  *)
(* Confidence values are kept in hundredths (0.5 is 50).                   *)
(***************************************************************************)
EXTENDS Integers, Sequences, FiniteSets, TLC

(***************************************************************************)
(* Bounds of the model.                                                    *)
(***************************************************************************)
\* number of process() calls that may be in flight at the same time
MaxProcs == 1
\* number of remote requests of the memory hook that may be in flight
MaxInflight == 1
\* number of storeMemory calls made in a run of SpecSync and SpecEM
MaxStoreCalls == 1
\* number of extractInsights calls made in a run
MaxExtracts == 1
\* storeMemory calls made beyond the list's capacity in a run of SpecStore
StoreSlack == 2
\* storeMemory calls made, and possibly in flight together, in a run of
\* SpecOverlap
MaxOverlap == 3

(***************************************************************************)
(* Program constants.                                                      *)
(***************************************************************************)
\* setLocalMemory keeps prev.slice(-9) before appending the two new turns
WindowKeep == 9
\* processSovereign sends localMemory.slice(-10) as context
ContextWindow == 10
\* data.confidence || 0.8 on the primary path
PrimaryDefaultConfidence == 80
\* data.confidence || 0.75 on the sovereign path
SovereignDefaultConfidence == 75
\* storeMemory keeps prev.memories.slice(-49) before appending the record
MemoryKeep == 49
\* the confidence storeMemory and the anonymous evolveKnowledge assign (0.5)
DefaultConfidence == 50
\* extractInsights evolves a preference when its confidence is > 0.6
PreferenceThreshold == 60
\* extractInsights evolves a pattern when its confidence is > 0.5
PatternThreshold == 50
\* the capacity of the memory list that results: 49 kept + 1 appended
MemoryCap == MemoryKeep + 1

(***************************************************************************)
(* Generic helpers: JavaScript's Array.prototype.slice(-n), optional       *)
(* values (a sequence of length 0 or 1) and the `a || b` default.          *)
(***************************************************************************)
\* arr.slice(-n): the last n elements, the whole array when it is shorter
SliceLast(s, n) ==
    IF Len(s) <= n THEN s ELSE SubSeq(s, Len(s) - n + 1, Len(s))

None == <<>>
Some(x) == <<x>>

\* the string standing for a property that is undefined / missing
Undef == "undefined"
\* the number standing for a numeric property that is undefined / missing
UndefNum == -1

\* s || d for a string property: undefined and '' are both falsy
OrStr(s, d) == IF s = Undef \/ s = "" THEN d ELSE s
\* n || d for a numeric property: undefined and 0 are both falsy
OrNum(n, d) == IF n = UndefNum \/ n = 0 THEN d ELSE n
\* o || d and o ?? d for an optional array or boolean property
OrOpt(o, d) == IF o = None THEN d ELSE o[1]

Count(s, P(_)) == Cardinality({i \in 1..Len(s) : P(s[i])})

VARIABLES
    \* ---- useDualHemisphere ----
    isSovereign,    \* useState(false)
    localMemory,    \* useState([]): the short-term window of turns
    lastResult,     \* useState(null): None or Some(ReasoningResult)
    proc,           \* the process() calls: one record per call slot
    \* ---- useEdgeMemory ----
    state,          \* useState<EdgeMemoryState>
    userIdRef,      \* userIdRef.current: "null" or a user id
    cache,          \* localStorage['edge_memory_cache_<satelliteId>']
    pending,        \* remote requests of the hook awaiting their outcome
    mount,          \* the mount effect: "getUser" until initUser resolved
    nextId,         \* number of storeMemory calls made so far
    nExtract,       \* number of extractInsights calls made so far
    \* ---- history (not read by any action) ----
    stored,         \* the records storeMemory appended, in application order
    wentOnline,     \* isOnline has gone from false to true in some step
    settled         \* the last request settled and how its handler ended,
                    \* recorded only in runs that start with a record

dhVars == <<isSovereign, localMemory, lastResult, proc>>

emState == <<state, userIdRef, cache, pending, mount, nextId, nExtract,
             stored, wentOnline>>

emVars == <<state, userIdRef, cache, pending, mount, nextId, nExtract,
            stored, wentOnline, settled>>

vars == <<isSovereign, localMemory, lastResult, proc,
          state, userIdRef, cache, pending, mount, nextId, nExtract,
          stored, wentOnline, settled>>

(***************************************************************************)
(* useDualHemisphere                                                       *)
(***************************************************************************)
Procs == 1..MaxProcs

Queries == {"q"}

\* Bodies the 'chat' function may answer with: every field present, or an
\* empty object (every field missing).
ChatData ==
    { [response |-> "r", confidence |-> 90, dominant_hemisphere |-> "alpha",
       reasoning_trace |-> Some(<<"t">>), governance_validated |-> Some(FALSE)],
      [response |-> Undef, confidence |-> UndefNum, dominant_hemisphere |-> Undef,
       reasoning_trace |-> None, governance_validated |-> None] }

\* Bodies the 'sovereign-fallback' function may answer with (the answer text
\* to a query is the same whichever backend gives it).
SovereignData ==
    { [response |-> "r", confidence |-> 60,
       reasoning_trace |-> Some(<<"g">>), governance_validated |-> Some(FALSE)],
      [response |-> Undef, confidence |-> UndefNum,
       reasoning_trace |-> None, governance_validated |-> None] }

\* How an awaited supabase.functions.invoke may end: a body and no error, a
\* structured error ({error}), or a rejected promise.
Outcomes == {"ok", "error", "throw"}

\* The places where the hooks await a remote call, named by the request; the
\* three calls of processSovereign are told apart by where process() makes
\* them: in the unhealthy branch, in the try block or in the catch block.
SovereignSites == {"sovUnhealthy", "sovInTry", "sovInCatch"}

\* The awaited call raises an exception at its site: a rejected promise does
\* everywhere; a structured error only where the code rethrows it
\* (processSovereign: `if (error) throw error`).
Raises(site, outcome) ==
    \/ outcome = "throw"
    \/ outcome = "error" /\ site \in SovereignSites

\* The sites inside a try block of the exported operation that awaits there
\* (for 'ping', of checkFederationHealth); no catch block rethrows.
TrySites ==
    {"rehydrate", "store_memory", "evolve_knowledge", "sync_session",
     "extract_insights", "ping", "chat", "sovInTry"}

\* How the settling of a request leaves the exported operation that awaits
\* it: "threw" when the exception raised at the site reaches the operation's
\* caller, "returned" when none is raised or a catch block takes it.
Ending(site, outcome) ==
    IF Raises(site, outcome) /\ site \notin TrySites THEN "threw"
    ELSE "returned"

\* History: the request named op settled with outcome, and the exported
\* operation awaiting it was left in the given way ("returned" or "threw").
\* A run that starts with the "any" record keeps a summary instead: whether
\* some request has failed, whether some operation has thrown, and the
\* requests whose failure reached a caller.
Settle(op, outcome, ending) ==
    settled' =
        IF settled = None THEN None
        ELSE IF settled[1].op = "any"
        THEN Some([op |-> "any",
                   outcome |-> IF outcome = "ok" THEN settled[1].outcome
                               ELSE "failed",
                   ending |-> IF ending = "threw" THEN "threw"
                              ELSE settled[1].ending,
                   escaped |-> IF ending = "threw"
                               THEN settled[1].escaped \cup {op}
                               ELSE settled[1].escaped])
        ELSE Some([op |-> op, outcome |-> outcome, ending |-> ending])

IdleProc ==
    [pc |-> "idle", query |-> "q", trace |-> <<>>, health |-> "none",
     primary |-> "none", answeredBy |-> "none", timer |-> "none",
     sovMarked |-> TRUE]

\* The ReasoningResult built from the primary endpoint's body.
PrimaryResult(data) ==
    [response |-> OrStr(data.response, ""),
     confidence |-> OrNum(data.confidence, PrimaryDefaultConfidence),
     hemisphere |-> OrStr(data.dominant_hemisphere, "fused"),
     reasoning_trace |-> OrOpt(data.reasoning_trace, <<>>),
     governance_validated |-> OrOpt(data.governance_validated, TRUE)]

\* The ReasoningResult built from the sovereign endpoint's body.
SovereignResult(data) ==
    [response |-> OrStr(data.response, ""),
     confidence |-> OrNum(data.confidence, SovereignDefaultConfidence),
     hemisphere |-> "fused",
     reasoning_trace |-> OrOpt(data.reasoning_trace, <<"SOVEREIGN_MODE">>),
     governance_validated |-> OrOpt(data.governance_validated, TRUE)]

\* setLocalMemory(prev => [...prev.slice(-9), user turn, assistant turn])
AppendExchange(prev, query, answer) ==
    SliceLast(prev, WindowKeep)
        \o << [role |-> "user", content |-> query],
              [role |-> "assistant", content |-> answer] >>

\* The sessionId argument a component may pass to the hook: none, the empty
\* string, or an id.
SessionIdArgs == {Undef, "", "s1"}

\* A session id as a request carries it: the hook's argument, or the value
\* crypto.randomUUID() returned when the body of request k of call p was
\* built (every value it returns differs from every other id).
GivenId(arg) == [from |-> "argument", id |-> arg, request |-> <<0, 0>>]
RandomUUID(p, k) == [from |-> "randomUUID", id |-> "uuid", request |-> <<p, k>>]

\* `sessionId: sessionId || crypto.randomUUID()` in the body of the k-th
\* request of call p, the hook having been given the argument arg: undefined
\* and '' are both falsy.
SessionIdSent(arg, p, k) ==
    IF arg = Undef \/ arg = "" THEN RandomUUID(p, k) ELSE GivenId(arg)

InitDH ==
    /\ isSovereign = FALSE
    /\ localMemory = <<>>
    /\ lastResult = None
    /\ proc = [p \in Procs |-> IdleProc]

\* process(query): checkFederationHealth up to its await. The AbortController
\* is created and the 3000 ms timer armed, then the ping is sent.
ProcessStart(p, q) ==
    /\ proc[p].pc \in {"idle", "done", "failed"}
    /\ proc' = [proc EXCEPT ![p] =
                  [IdleProc EXCEPT !.pc = "ping", !.query = q,
                                   !.trace = <<"ping">>,
                                   !.timer = "armed"]]
    /\ UNCHANGED <<isSovereign, localMemory, lastResult, emVars>>

\* The 3000 ms timer fires: controller.abort(). The controller's signal was
\* never handed to the ping request, so the pending request is unaffected.
PingTimeout(p) ==
    /\ proc[p].timer = "armed"
    /\ proc' = [proc EXCEPT ![p].timer = "fired"]
    /\ UNCHANGED <<isSovereign, localMemory, lastResult, emVars>>

\* The ping settles with a healthy federation: clearTimeout, return !error,
\* then process() continues: setIsSovereign(false) and the 'chat' request.
PingHealthy(p) ==
    /\ proc[p].pc = "ping"
    /\ isSovereign' = FALSE
    /\ proc' = [proc EXCEPT ![p].pc = "chat", ![p].health = "healthy",
                            ![p].timer = IF @ = "armed" THEN "cleared" ELSE @,
                            ![p].trace = Append(@, "chat")]
    /\ UNCHANGED <<localMemory, lastResult, emState>>
    /\ Settle("ping", "ok", Ending("ping", "ok"))

\* PingUnhealthy without setIsSovereign(true) before the delegation.
PingUnhealthy_NoMark(p, outcome) ==
    /\ proc[p].pc = "ping"
    /\ outcome \in {"error", "throw"}
    /\ proc' = [proc EXCEPT ![p].pc = "sovUnhealthy", ![p].health = "unhealthy",
                            ![p].timer = IF @ = "armed" /\ outcome = "error"
                                         THEN "cleared" ELSE @,
                            ![p].trace = Append(@, "sovereign"),
                            ![p].sovMarked = @ /\ isSovereign]
    /\ UNCHANGED <<isSovereign, localMemory, lastResult, emState>>
    /\ Settle("ping", outcome, Ending("ping", outcome))

\* The ping settles with an error (return !error, timer cleared) or rejects
\* (catch: return false, the timer is left running): process() marks
\* sovereign mode and delegates to processSovereign.
PingUnhealthy(p, outcome) ==
    /\ proc[p].pc = "ping"
    /\ outcome \in {"error", "throw"}
    /\ isSovereign' = TRUE
    /\ proc' = [proc EXCEPT ![p].pc = "sovUnhealthy", ![p].health = "unhealthy",
                            ![p].timer = IF @ = "armed" /\ outcome = "error"
                                         THEN "cleared" ELSE @,
                            ![p].trace = Append(@, "sovereign"),
                            ![p].sovMarked = @ /\ isSovereign']
    /\ UNCHANGED <<localMemory, lastResult, emState>>
    /\ Settle("ping", outcome, Ending("ping", outcome))

\* 'chat' answers without error: the result is built with defaults, the
\* exchange appended to the window, lastResult set and the result returned.
ChatOk(p, data) ==
    /\ proc[p].pc = "chat"
    /\ localMemory' = AppendExchange(localMemory, proc[p].query,
                                     PrimaryResult(data).response)
    /\ lastResult' = Some(PrimaryResult(data))
    /\ proc' = [proc EXCEPT ![p].pc = "done", ![p].primary = "ok",
                            ![p].answeredBy = "primary"]
    /\ UNCHANGED <<isSovereign, emState>>
    /\ Settle("chat", "ok", Ending("chat", "ok"))

\* 'chat' answers with a structured error (the `if (error)` branch, inside
\* the try block) or rejects (the catch block): sovereign mode is marked and
\* processSovereign called.
ChatFail(p, outcome) ==
    /\ proc[p].pc = "chat"
    /\ outcome \in {"error", "throw"}
    /\ isSovereign' = TRUE
    /\ proc' = [proc EXCEPT
                  ![p].pc = IF outcome = "error" THEN "sovInTry" ELSE "sovInCatch",
                  ![p].primary = outcome,
                  ![p].trace = Append(@, "sovereign"),
                            ![p].sovMarked = @ /\ isSovereign']
    /\ UNCHANGED <<localMemory, lastResult, emState>>
    /\ Settle("chat", outcome, Ending("chat", outcome))

\* 'sovereign-fallback' answers without error: the exchange is appended with
\* the body's raw response, the result returned to process(), which sets
\* lastResult and returns it.
SovereignOk(p, data) ==
    /\ proc[p].pc \in SovereignSites
    /\ localMemory' = AppendExchange(localMemory, proc[p].query, data.response)
    /\ lastResult' = Some(SovereignResult(data))
    /\ proc' = [proc EXCEPT ![p].pc = "done", ![p].answeredBy = "sovereign"]
    /\ UNCHANGED <<isSovereign, emState>>
    /\ Settle("sovereign-fallback", "ok", Ending(proc[p].pc, "ok"))

\* 'sovereign-fallback' answers with an error (`if (error) throw error`) or
\* rejects: processSovereign throws. Called from the unhealthy branch or from
\* the catch block the exception leaves process(). Called from inside the try
\* block (the structured-error branch) it is caught by process()'s own catch
\* block, which marks sovereign mode and calls processSovereign again.
SovereignFail(p) ==
    /\ proc[p].pc \in SovereignSites
    /\ IF Ending(proc[p].pc, "throw") = "returned"
       THEN /\ isSovereign' = TRUE
            /\ proc' = [proc EXCEPT
                          ![p].pc = "sovInCatch",
                          ![p].trace = Append(@, "sovereign"),
                            ![p].sovMarked = @ /\ isSovereign']
       ELSE /\ proc' = [proc EXCEPT ![p].pc = "failed"]
            /\ UNCHANGED isSovereign
    /\ UNCHANGED <<localMemory, lastResult, emState>>
    /\ \E o \in {"error", "throw"} :
            Settle("sovereign-fallback", o, Ending(proc[p].pc, o))

\* forceSovereign(enabled)
ForceSovereign(enabled) ==
    /\ isSovereign' = enabled
    /\ UNCHANGED <<localMemory, lastResult, proc, emVars>>

\* clearLocalMemory()
ClearLocalMemory ==
    /\ localMemory' = <<>>
    /\ UNCHANGED <<isSovereign, lastResult, proc, emVars>>

NextDH ==
    \/ \E p \in Procs, q \in Queries : ProcessStart(p, q)
    \/ \E p \in Procs : PingTimeout(p)
    \/ \E p \in Procs : PingHealthy(p)
    \/ \E p \in Procs, o \in {"error", "throw"} : PingUnhealthy(p, o)
    \/ \E p \in Procs, d \in ChatData : ChatOk(p, d)
    \/ \E p \in Procs, o \in {"error", "throw"} : ChatFail(p, o)
    \/ \E p \in Procs, d \in SovereignData : SovereignOk(p, d)
    \/ \E p \in Procs : SovereignFail(p)
    \/ \E b \in BOOLEAN : ForceSovereign(b)
    \/ ClearLocalMemory

(***************************************************************************)
(* useEdgeMemory: data                                                     *)
(***************************************************************************)
NoUser == "null"
Users == {"u1"}

Keys == {"k1"}
Values == {"v1", "v2"}

\* {...a, ...b}: object spread, b's properties override a's
Spread(a, b) ==
    [k \in DOMAIN a \cup DOMAIN b |-> IF k \in DOMAIN b THEN b[k] ELSE a[k]]

\* o[k] || d for a property of a parsed object that may be missing
GetOr(o, k, d) == IF k \in DOMAIN o THEN o[k] ELSE d

EmptyObject == [k \in {} |-> TRUE]

\* useState's initial EdgeMemoryState
InitialState ==
    [memories |-> <<>>, knowledge |-> EmptyObject, session |-> None,
     isReturningUser |-> "false", greeting |-> "Hello", isLoading |-> TRUE,
     isOnline |-> TRUE, lastSyncAt |-> "null"]

\* The argument of the n-th storeMemory call (its content tells it apart).
MemoryInput(n) ==
    [content |-> n, memoryType |-> "note", importance |-> "normal",
     topicTags |-> <<>>]

\* A memory record as the backend returns it.
RemoteMemory(i) ==
    [content |-> 0 - i, memoryType |-> "fact", importance |-> "high",
     confidence |-> 90, topicTags |-> <<>>]

RemoteMemories(n) == [i \in 1..n |-> RemoteMemory(i)]

RemoteKnowledge ==
    [k \in {"k1"} |->
        [value |-> "v1", confidence |-> 70, observations |-> 3,
         type |-> "preference"]]

RemoteSession ==
    [activeContext |-> EmptyObject, pendingTopics |-> <<"t1">>,
     communicationStyle |-> "casual", verbosityPreference |-> "short",
     totalInteractions |-> 4, totalSessions |-> 2]

\* Bodies the 'rehydrate' action may answer with: a full context, a body with
\* no context and no flags, and a context whose memory list is longer than
\* the list storeMemory maintains.
RehydrateData ==
    { [context |-> Some([memories |-> Some(RemoteMemories(1)),
                         knowledge |-> Some(RemoteKnowledge),
                         session |-> Some(RemoteSession)]),
       isReturningUser |-> "true", greeting |-> "Welcome back"],
      [context |-> None, isReturningUser |-> Undef, greeting |-> Undef],
      [context |-> Some([memories |-> Some(RemoteMemories(MemoryCap + 1)),
                         knowledge |-> None, session |-> None]),
       isReturningUser |-> "true", greeting |-> "Welcome back"] }

\* The bodies among them whose memory list is within the list's capacity.
ShortRehydrateData ==
    {d \in RehydrateData :
        d.context = None \/ Len(OrOpt(d.context[1].memories, <<>>)) <= MemoryCap}

\* Bodies the 'evolve_knowledge' action may answer with.
EvolveData ==
    { [evolved |-> Some([confidence_trajectory |-> Some(<<30, 70>>),
                         observations_count |-> 3])],
      [evolved |-> None] }

\* Every shape of 'evolved' payload: the trajectory present, missing or
\* empty, the count present, zero or missing.
EvolveBodies ==
    { [evolved |-> Some([confidence_trajectory |-> t, observations_count |-> n])] :
        t \in {Some(<<30, 70>>), None, Some(<<>>)}, n \in {3, 0, UndefNum} }
    \cup { [evolved |-> None] }

\* Keys a caller of evolveKnowledge may pass.
KnowledgeKeys == {"k1", "k2"}

\* Partial session updates a caller may pass to updateSession.
SessionUpdates ==
    { [communicationStyle |-> "formal"] }

\* Updates that overwrite one or several fields of a session.
SessionPatches ==
    SessionUpdates \cup
    { [pendingTopics |-> <<>>, verbosityPreference |-> "long"] }

\* Bodies the 'extract_insights' action may answer with.
InsightData ==
    { [success |-> TRUE,
       insights |-> Some(
          [preferences |-> << [key |-> "k1", value |-> "v1", confidence |-> 70],
                              [key |-> "k1", value |-> "v2", confidence |-> 60] >>,
           patterns |-> << [key |-> "k1", value |-> "v2", confidence |-> 50],
                           [key |-> "k1", value |-> "v2", confidence |-> 55] >>,
           facts |-> << [content |-> 0 - 101, importance |-> "low"] >>])],
      [success |-> TRUE,
       insights |-> Some(
          [preferences |-> << [key |-> "k1", value |-> "v1", confidence |-> 70] >>,
           patterns |-> << [key |-> "k1", value |-> "v1", confidence |-> 50] >>,
           facts |-> << [content |-> 0 - 101, importance |-> "low"] >>])],
      [success |-> FALSE, insights |-> None] }

\* A body with three facts and neither preferences nor patterns.
FactsOnlyBody ==
    [success |-> TRUE,
     insights |-> Some(
        [preferences |-> << >>,
         patterns |-> << >>,
         facts |-> << [content |-> 0 - 101, importance |-> "low"],
                      [content |-> 0 - 102, importance |-> "high"],
                      [content |-> 0 - 103, importance |-> "low"] >>])]

InsightBodies == InsightData \cup {FactsOnlyBody}

(***************************************************************************)
(* useEdgeMemory: the state updaters and the local cache store             *)
(***************************************************************************)
\* JSON.stringify of the object saveToLocalStorage writes: properties whose
\* value is undefined are dropped, a Date becomes its ISO string.
JsonStringify(o) ==
    LET dropped == {k \in DOMAIN o \cap {"isReturningUser", "greeting"} :
                        o[k] = Undef}
    IN  [k \in DOMAIN o \ dropped |->
            IF k = "lastSyncAt" THEN (IF o[k] = "Date" THEN "iso" ELSE o[k])
            ELSE o[k]]

\* saveToLocalStorage merging as {...data, ...parsed}: what is already cached
\* wins over the new snapshot.
SaveToLocalStorage_ExistingWins(blob, data, ok) ==
    IF ~ok THEN blob
    ELSE LET parsed == IF blob = None THEN EmptyObject ELSE blob[1]
             updated == Spread(Spread(data, parsed), [savedAt |-> "iso"])
         IN  Some(JsonStringify(updated))

\* saveToLocalStorage(data): the stored blob afterwards. ok is FALSE when
\* localStorage (getItem, JSON.parse or setItem) throws: the error is logged
\* and the blob left as it was.
SaveToLocalStorage(blob, data, ok) ==
    IF ~ok THEN blob
    ELSE LET parsed == IF blob = None THEN EmptyObject ELSE blob[1]
             updated == Spread(Spread(parsed, data), [savedAt |-> "iso"])
         IN  Some(JsonStringify(updated))

\* loadFromLocalStorage marking the hook online when it loads a snapshot.
LoadFromLocalStorage_Online(prev, blob, ok) ==
    IF ~ok \/ blob = None THEN prev
    ELSE LET parsed == blob[1]
         IN  [prev EXCEPT !.memories = GetOr(parsed, "memories", <<>>),
                          !.knowledge = GetOr(parsed, "knowledge", EmptyObject),
                          !.session = GetOr(parsed, "session", None),
                          !.isOnline = TRUE,
                          !.isLoading = FALSE]

\* loadFromLocalStorage(): the state afterwards. Nothing is set when nothing
\* is cached, or when localStorage throws (ok is FALSE).
LoadFromLocalStorage(prev, blob, ok) ==
    IF ~ok \/ blob = None THEN prev
    ELSE LET parsed == blob[1]
         IN  [prev EXCEPT !.memories = GetOr(parsed, "memories", <<>>),
                          !.knowledge = GetOr(parsed, "knowledge", EmptyObject),
                          !.session = GetOr(parsed, "session", None),
                          !.isOnline = FALSE,
                          !.isLoading = FALSE]

\* The newState object rehydrateInternal builds from a successful response.
RehydratedState(data) ==
    LET ctx == data.context
    IN  [memories |-> IF ctx = None THEN <<>> ELSE OrOpt(ctx[1].memories, <<>>),
         knowledge |-> IF ctx = None THEN EmptyObject
                       ELSE OrOpt(ctx[1].knowledge, EmptyObject),
         session |-> IF ctx = None THEN None ELSE ctx[1].session,
         isReturningUser |-> data.isReturningUser,
         greeting |-> data.greeting,
         isOnline |-> TRUE,
         isLoading |-> FALSE,
         lastSyncAt |-> "Date"]

\* rehydrateInternal's failure path: loadFromLocalStorage(), then
\* setState(prev => ({...prev, isOnline: false, isLoading: false})).
RehydrateFailed(prev, blob, ok) ==
    [LoadFromLocalStorage(prev, blob, ok) EXCEPT !.isOnline = FALSE,
                                                 !.isLoading = FALSE]

\* {...memory, confidence: 0.5}
WithConfidence(memory) ==
    Spread(memory, [confidence |-> DefaultConfidence])

\* The append keeping the last 50 earlier records instead of the last 49.
AppendMemory_KeepFifty(prev, memory) ==
    [prev EXCEPT !.memories =
        Append(SliceLast(@, MemoryKeep + 1), WithConfidence(memory))]

\* setState(prev => ({...prev, memories: [...prev.memories.slice(-49), rec]}))
AppendMemory(prev, memory) ==
    [prev EXCEPT !.memories =
        Append(SliceLast(@, MemoryKeep), WithConfidence(memory))]

\* The knowledge update without the spread of prev.knowledge: the map is
\* left with the one entry.
SetKnowledge_OnlyKey(prev, key, entry) ==
    [prev EXCEPT !.knowledge = [k \in {key} |-> entry]]

\* setState(prev => ({...prev, knowledge: {...prev.knowledge, [key]: entry}}))
SetKnowledge(prev, key, entry) ==
    [prev EXCEPT !.knowledge = Spread(@, [k \in {key} |-> entry])]

\* The entry evolveKnowledge seeds when no identity is known.
SeedEntry(value, type) ==
    [value |-> value, confidence |-> DefaultConfidence, observations |-> 1,
     type |-> type]

\* The entry evolveKnowledge builds from data.evolved: the trajectory is
\* `confidence_trajectory || [0.5]` (an empty array is truthy), its last
\* element the confidence (undefined for an empty array).
EvolvedEntry(value, type, evolved) ==
    LET trajectory == OrOpt(evolved.confidence_trajectory, <<DefaultConfidence>>)
    IN  [value |-> value,
         confidence |-> IF Len(trajectory) = 0 THEN UndefNum
                        ELSE trajectory[Len(trajectory)],
         observations |-> OrNum(evolved.observations_count, 1),
         type |-> type]

\* The merge creating a session from the update when there is none.
MergeSession_Creates(prev, updates) ==
    [prev EXCEPT !.session =
        IF @ = None THEN Some(updates) ELSE Some(Spread(@[1], updates))]

\* setState(prev => ({...prev,
\*     session: prev.session ? {...prev.session, ...updates} : null}))
MergeSession(prev, updates) ==
    [prev EXCEPT !.session =
        IF @ = None THEN None ELSE Some(Spread(@[1], updates))]

RECURSIVE Concat(_)
Concat(ss) == IF Len(ss) = 0 THEN <<>> ELSE Head(ss) \o Concat(Tail(ss))

\* The loop taking the items at the threshold too.
EvolveItems_AtThreshold(items, threshold, type) ==
    Concat([i \in 1..Len(items) |->
                IF items[i].confidence >= threshold
                THEN << [kind |-> "evolve", key |-> items[i].key,
                         value |-> items[i].value, type |-> type] >>
                ELSE << >>])

\* One loop of extractInsights over preferences or patterns: an evolve call
\* for each item whose confidence is above the threshold.
EvolveItems(items, threshold, type) ==
    Concat([i \in 1..Len(items) |->
                IF items[i].confidence > threshold
                THEN << [kind |-> "evolve", key |-> items[i].key,
                         value |-> items[i].value, type |-> type] >>
                ELSE << >>])

\* The loop over facts: a storeMemory call for every fact.
StoreItems(facts) ==
    [i \in 1..Len(facts) |->
        [kind |-> "store",
         memory |-> [memoryType |-> "insight", content |-> facts[i].content,
                     importance |-> facts[i].importance, topicTags |-> <<>>]]]

\* The calls extractInsights makes for a response's insights, in the order
\* of its three loops.
InsightItems(insights) ==
    EvolveItems(insights.preferences, PreferenceThreshold, "preference")
        \o EvolveItems(insights.patterns, PatternThreshold, "behavior")
        \o StoreItems(insights.facts)

\* The bodies of 'extract_insights' that lead to at most two calls.
BriefInsightData ==
    {d \in InsightData :
        d.insights = None \/ Len(InsightItems(d.insights[1])) <= 2}

(***************************************************************************)
(* useEdgeMemory: operations                                               *)
(***************************************************************************)
RemoveAt(s, i) == SubSeq(s, 1, i - 1) \o SubSeq(s, i + 1, Len(s))

HasRoom == Len(pending) < MaxInflight

\* History: whether isOnline has gone from false to true in some step.
TrackOnline == wentOnline' = (wentOnline \/ (~state.isOnline /\ state'.isOnline))

\* rehydrateInternal(userId) up to its await: the 'rehydrate' request.
RehydrateRequest(userId) ==
    [op |-> "rehydrate", userId |-> userId]

\* storeMemory up to its await: the 'store_memory' request. sourceMode is
\* taken from the isOnline of the state st the callback closed over.
StoreRequest(st, memory, rest) ==
    [op |-> "store_memory", userId |-> userIdRef, memory |-> memory,
     sourceMode |-> IF st.isOnline THEN "federated" ELSE "sovereign",
     rest |-> rest]

\* evolveKnowledge up to its await: the 'evolve_knowledge' request.
EvolveRequest(key, value, type, rest) ==
    [op |-> "evolve_knowledge", userId |-> userIdRef, key |-> key,
     value |-> value, type |-> type, rest |-> rest]

\* The remaining calls of an extractInsights loop made with no identity:
\* each takes its local path at once.
RECURSIVE ApplyLocally(_, _)
ApplyLocally(st, items) ==
    IF Len(items) = 0 THEN st
    ELSE LET it == Head(items)
         IN  ApplyLocally(
                IF it.kind = "evolve"
                THEN SetKnowledge(st, it.key, SeedEntry(it.value, it.type))
                ELSE AppendMemory(st, it.memory),
                Tail(items))

RECURSIVE StoredLocally(_)
StoredLocally(items) ==
    IF Len(items) = 0 THEN <<>>
    ELSE (IF Head(items).kind = "store"
          THEN <<WithConfidence(Head(items).memory)>> ELSE <<>>)
         \o StoredLocally(Tail(items))

\* The state a storeMemory callback closed over, of which it reads isOnline
\* only: extractInsights holds the storeMemory of the render in which it was
\* called (its dependency list), not the one of the latest render.
ClosedOver(online) == [isOnline |-> online]

\* The end of a step that handled the outcome of pending[i], leaving state
\* st and history log: the awaiting extractInsights loop, if any, goes on
\* with its next call (rest), which either takes its local path or sends its
\* own request. The identity is read from the ref when the call is made; the
\* sourceMode of a 'store_memory' request is taken from the isOnline of the
\* render in which extractInsights was called, which every request of the
\* loop carries along.
Resume(i, st, log, rest) ==
    IF Len(rest) = 0
    THEN /\ state' = st
         /\ stored' = log
         /\ pending' = RemoveAt(pending, i)
    ELSE IF userIdRef = NoUser
    THEN /\ state' = ApplyLocally(st, rest)
         /\ stored' = log \o StoredLocally(rest)
         /\ pending' = RemoveAt(pending, i)
    ELSE /\ state' = st
         /\ stored' = log
         /\ pending' = Append(RemoveAt(pending, i),
                Spread(IF Head(rest).kind = "evolve"
                       THEN EvolveRequest(Head(rest).key, Head(rest).value,
                                          Head(rest).type, Tail(rest))
                       ELSE StoreRequest(ClosedOver(pending[i].isOnline),
                                         Head(rest).memory, Tail(rest)),
                       ClosedOver(pending[i].isOnline)))

\* The snapshots an earlier session of this agent may have left in
\* localStorage: none, or the one a successful rehydrate saved.
PriorCaches ==
    {None} \cup
    {SaveToLocalStorage(None, RehydratedState(d), TRUE) :
        d \in {d \in ShortRehydrateData : d.context # None}}

InitEMState(blobs) ==
    /\ state = InitialState
    /\ userIdRef = NoUser
    /\ cache \in blobs
    /\ pending = <<>>
    /\ mount = "getUser"
    /\ nextId = 0
    /\ nExtract = 0
    /\ stored = <<>>
    /\ wentOnline = FALSE

InitEMWith(blobs) == InitEMState(blobs) /\ settled = None

InitEM == InitEMWith(PriorCaches)

\* initUser: supabase.auth.getUser() resolves. With a user the id is kept and
\* rehydrateInternal called and awaited (both of its paths clear isLoading,
\* as initUser does after it); with none only isLoading is cleared.
InitUser(u) ==
    /\ mount = "getUser"
    /\ mount' = "done"
    /\ IF u # NoUser
       THEN /\ HasRoom
            /\ userIdRef' = u
            /\ pending' = Append(pending, RehydrateRequest(u))
            /\ state' = state
       ELSE /\ userIdRef' = userIdRef
            /\ state' = [state EXCEPT !.isLoading = FALSE]
            /\ pending' = pending
    /\ UNCHANGED <<cache, nextId, nExtract, stored, dhVars>>
    /\ TrackOnline
    /\ UNCHANGED settled

\* onAuthStateChange with a session: the id is kept and rehydrateInternal
\* called (not awaited).
SignIn(u) ==
    /\ u \in Users
    /\ HasRoom
    /\ userIdRef' = u
    /\ pending' = Append(pending, RehydrateRequest(u))
    /\ UNCHANGED <<state, cache, mount, nextId, nExtract, stored, dhVars>>
    /\ TrackOnline
    /\ UNCHANGED settled

\* onAuthStateChange without a session: the id is dropped and the cache loaded.
SignOut(ok) ==
    /\ userIdRef' = NoUser
    /\ state' = LoadFromLocalStorage(state, cache, ok)
    /\ UNCHANGED <<cache, pending, mount, nextId, nExtract, stored, dhVars>>
    /\ TrackOnline
    /\ UNCHANGED settled

\* rehydrate(): rehydrateInternal with the known identity, else the cache.
Rehydrate(ok) ==
    /\ IF userIdRef # NoUser
       THEN /\ HasRoom
            /\ pending' = Append(pending, RehydrateRequest(userIdRef))
            /\ state' = state
       ELSE /\ state' = LoadFromLocalStorage(state, cache, ok)
            /\ pending' = pending
    /\ UNCHANGED <<userIdRef, cache, mount, nextId, nExtract, stored, dhVars>>
    /\ TrackOnline
    /\ UNCHANGED settled

\* The 'rehydrate' request answers without error: the new state replaces the
\* old one and is saved to localStorage.
RehydrateOk(i, data, ok) ==
    /\ i \in 1..Len(pending)
    /\ pending[i].op = "rehydrate"
    /\ state' = Spread(state, RehydratedState(data))
    /\ cache' = SaveToLocalStorage(cache, RehydratedState(data), ok)
    /\ pending' = RemoveAt(pending, i)
    /\ UNCHANGED <<userIdRef, mount, nextId, nExtract, stored, dhVars>>
    /\ TrackOnline
    /\ Settle("rehydrate", "ok", Ending("rehydrate", "ok"))

\* RehydrateFail saving the state it is left with to localStorage.
RehydrateFail_SavesState(i, outcome, ok) ==
    /\ i \in 1..Len(pending)
    /\ pending[i].op = "rehydrate"
    /\ outcome \in {"error", "throw"}
    /\ state' = RehydrateFailed(state, cache, ok)
    /\ cache' = SaveToLocalStorage(cache, state', ok)
    /\ pending' = RemoveAt(pending, i)
    /\ UNCHANGED <<userIdRef, mount, nextId, nExtract, stored, dhVars>>
    /\ TrackOnline
    /\ Settle("rehydrate", outcome, Ending("rehydrate", outcome))

\* The 'rehydrate' request answers with an error or rejects: the cache is
\* loaded and the hook marked offline.
RehydrateFail(i, outcome, ok) ==
    /\ i \in 1..Len(pending)
    /\ pending[i].op = "rehydrate"
    /\ outcome \in {"error", "throw"}
    /\ state' = RehydrateFailed(state, cache, ok)
    /\ pending' = RemoveAt(pending, i)
    /\ UNCHANGED <<userIdRef, cache, mount, nextId, nExtract, stored, dhVars>>
    /\ TrackOnline
    /\ Settle("rehydrate", outcome, Ending("rehydrate", outcome))

\* storeMemory(memory), the n-th call of at most limit. With no identity the
\* record is appended at once; with one the 'store_memory' request is sent.
StoreMemory(limit) ==
    /\ nextId < limit
    /\ nextId' = nextId + 1
    /\ LET memory == MemoryInput(nextId + 1)
       IN  IF userIdRef = NoUser
           THEN /\ state' = AppendMemory(state, memory)
                /\ stored' = Append(stored, WithConfidence(memory))
                /\ pending' = pending
           ELSE /\ HasRoom
                /\ pending' = Append(pending, StoreRequest(state, memory, <<>>))
                /\ state' = state
                /\ stored' = stored
    /\ UNCHANGED <<userIdRef, cache, mount, nExtract, dhVars>>
    /\ TrackOnline
    /\ UNCHANGED settled

\* storeMemory(memory) called without waiting for the calls made before it:
\* as StoreMemory, with up to limit 'store_memory' requests in flight.
StoreMemoryOverlapping(limit) ==
    /\ nextId < limit
    /\ nextId' = nextId + 1
    /\ LET memory == MemoryInput(nextId + 1)
       IN  IF userIdRef = NoUser
           THEN /\ state' = AppendMemory(state, memory)
                /\ stored' = Append(stored, WithConfidence(memory))
                /\ pending' = pending
           ELSE /\ Len(pending) < limit
                /\ pending' = Append(pending, StoreRequest(state, memory, <<>>))
                /\ state' = state
                /\ stored' = stored
    /\ UNCHANGED <<userIdRef, cache, mount, nExtract, dhVars>>
    /\ TrackOnline
    /\ UNCHANGED settled

\* StoreReturn appending to a stale list, `[...state.memories.slice(-49), r]`
\* with the list of the render in which the call was made: the records of
\* the calls made after it are not in that list.
StoreReturn_StaleList(i, outcome) ==
    /\ i \in 1..Len(pending)
    /\ pending[i].op = "store_memory"
    /\ outcome \in Outcomes
    /\ LET n == pending[i].memory.content
           stale == [state EXCEPT !.memories =
                        SelectSeq(@, LAMBDA r : r.content < n)]
       IN  Resume(i, AppendMemory(stale, pending[i].memory),
                  Append(stored, WithConfidence(pending[i].memory)),
                  pending[i].rest)
    /\ UNCHANGED <<userIdRef, cache, mount, nextId, nExtract, dhVars>>
    /\ TrackOnline
    /\ Settle("store_memory", outcome, Ending("store_memory", outcome))

\* StoreReturn with a catch block that only logs: a rejected request loses
\* the record.
StoreReturn_DropOnThrow(i, outcome) ==
    /\ i \in 1..Len(pending)
    /\ pending[i].op = "store_memory"
    /\ outcome \in Outcomes
    /\ IF outcome = "throw"
       THEN Resume(i, state, stored, pending[i].rest)
       ELSE Resume(i, AppendMemory(state, pending[i].memory),
                   Append(stored, WithConfidence(pending[i].memory)),
                   pending[i].rest)
    /\ UNCHANGED <<userIdRef, cache, mount, nextId, nExtract, dhVars>>
    /\ TrackOnline
    /\ Settle("store_memory", outcome, Ending("store_memory", outcome))

\* The 'store_memory' request settles: the record is appended after the
\* await (success or structured error) and in the catch block (rejection).
StoreReturn(i, outcome) ==
    /\ i \in 1..Len(pending)
    /\ pending[i].op = "store_memory"
    /\ outcome \in Outcomes
    /\ Resume(i, AppendMemory(state, pending[i].memory),
              Append(stored, WithConfidence(pending[i].memory)),
              pending[i].rest)
    /\ UNCHANGED <<userIdRef, cache, mount, nextId, nExtract, dhVars>>
    /\ TrackOnline
    /\ Settle("store_memory", outcome, Ending("store_memory", outcome))

\* evolveKnowledge(key, value, type). With no identity the entry is seeded at
\* once; with one the 'evolve_knowledge' request is sent.
EvolveKnowledge(key, value, type) ==
    /\ IF userIdRef = NoUser
       THEN /\ state' = SetKnowledge(state, key, SeedEntry(value, type))
            /\ pending' = pending
       ELSE /\ HasRoom
            /\ pending' = Append(pending, EvolveRequest(key, value, type, <<>>))
            /\ state' = state
    /\ UNCHANGED <<userIdRef, cache, mount, nextId, nExtract, stored, dhVars>>
    /\ TrackOnline
    /\ UNCHANGED settled

\* EvolveReturn seeding the entry when the request fails or carries no
\* 'evolved' payload.
EvolveReturn_SeedOnFailure(i, outcome, data) ==
    /\ i \in 1..Len(pending)
    /\ pending[i].op = "evolve_knowledge"
    /\ outcome \in Outcomes
    /\ LET r == pending[i]
           st == IF outcome = "ok" /\ data.evolved # None
                 THEN SetKnowledge(state, r.key,
                                   EvolvedEntry(r.value, r.type, data.evolved[1]))
                 ELSE SetKnowledge(state, r.key, SeedEntry(r.value, r.type))
       IN  Resume(i, st, stored, r.rest)
    /\ UNCHANGED <<userIdRef, cache, mount, nextId, nExtract, dhVars>>
    /\ TrackOnline
    /\ Settle("evolve_knowledge", outcome, Ending("evolve_knowledge", outcome))

\* The 'evolve_knowledge' request settles. Only a body with `evolved` changes
\* the entry; a structured error carries no body and a rejection is caught.
EvolveReturn(i, outcome, data) ==
    /\ i \in 1..Len(pending)
    /\ pending[i].op = "evolve_knowledge"
    /\ outcome \in Outcomes
    /\ LET r == pending[i]
           st == IF outcome = "ok" /\ data.evolved # None
                 THEN SetKnowledge(state, r.key,
                                   EvolvedEntry(r.value, r.type, data.evolved[1]))
                 ELSE state
       IN  Resume(i, st, stored, r.rest)
    /\ UNCHANGED <<userIdRef, cache, mount, nextId, nExtract, dhVars>>
    /\ TrackOnline
    /\ Settle("evolve_knowledge", outcome, Ending("evolve_knowledge", outcome))

\* updateSession(updates): returns at once with no identity, else sends the
\* 'sync_session' request.
UpdateSession(updates) ==
    /\ IF userIdRef = NoUser
       THEN /\ pending' = pending
       ELSE /\ HasRoom
            /\ pending' = Append(pending,
                  [op |-> "sync_session", userId |-> userIdRef,
                   updates |-> updates])
    /\ UNCHANGED <<state, userIdRef, cache, mount, nextId, nExtract, stored,
                   dhVars>>
    /\ TrackOnline
    /\ UNCHANGED settled

\* SessionReturn without the try/catch around the request: a rejection
\* leaves updateSession as an exception.
SessionReturn_NoCatch(i, outcome) ==
    /\ i \in 1..Len(pending)
    /\ pending[i].op = "sync_session"
    /\ outcome \in Outcomes
    /\ state' = IF outcome = "throw" THEN state
                ELSE MergeSession(state, pending[i].updates)
    /\ pending' = RemoveAt(pending, i)
    /\ UNCHANGED <<userIdRef, cache, mount, nextId, nExtract, stored, dhVars>>
    /\ TrackOnline
    /\ Settle("sync_session", outcome,
              IF Raises("sync_session", outcome) THEN "threw" ELSE "returned")

\* The 'sync_session' request settles. The awaited result is not inspected:
\* the update is merged after the await (success or structured error) and
\* skipped only when the request rejects.
SessionReturn(i, outcome) ==
    /\ i \in 1..Len(pending)
    /\ pending[i].op = "sync_session"
    /\ outcome \in Outcomes
    /\ state' = IF outcome = "throw" THEN state
                ELSE MergeSession(state, pending[i].updates)
    /\ pending' = RemoveAt(pending, i)
    /\ UNCHANGED <<userIdRef, cache, mount, nextId, nExtract, stored, dhVars>>
    /\ TrackOnline
    /\ Settle("sync_session", outcome, Ending("sync_session", outcome))

\* extractInsights(conversation) with a conversation of len turns: returns at
\* once with no identity or fewer than 2 turns, else sends 'extract_insights'.
\* The call keeps the isOnline its storeMemory callback closed over.
ExtractInsights(len) ==
    /\ nExtract < MaxExtracts
    /\ nExtract' = nExtract + 1
    /\ IF userIdRef = NoUser \/ len < 2
       THEN /\ pending' = pending
       ELSE /\ HasRoom
            /\ pending' = Append(pending,
                  [op |-> "extract_insights", userId |-> userIdRef,
                   turns |-> len, isOnline |-> state.isOnline])
    /\ UNCHANGED <<state, userIdRef, cache, mount, nextId, stored, dhVars>>
    /\ TrackOnline
    /\ UNCHANGED settled

\* The 'extract_insights' request settles. A successful body with insights
\* starts the three loops; their first call is made in the same step.
ExtractReturn(i, outcome, data) ==
    /\ i \in 1..Len(pending)
    /\ pending[i].op = "extract_insights"
    /\ outcome \in Outcomes
    /\ Resume(i, state, stored,
              IF outcome = "ok" /\ data.success /\ data.insights # None
              THEN InsightItems(data.insights[1]) ELSE <<>>)
    /\ UNCHANGED <<userIdRef, cache, mount, nextId, nExtract, dhVars>>
    /\ TrackOnline
    /\ Settle("extract_insights", outcome, Ending("extract_insights", outcome))

\* No call of storeMemory, evolveKnowledge, updateSession or extractInsights
\* is awaiting its request: the caller makes these calls one at a time.
\* Requests of rehydrateInternal, which auth events start, may be in flight.
CallerIdle == \A i \in 1..Len(pending) : pending[i].op = "rehydrate"

NextEM ==
    \/ \E u \in Users \cup {NoUser} : InitUser(u)
    \/ \E u \in Users : SignIn(u)
    \/ \E ok \in BOOLEAN : SignOut(ok)
    \/ \E ok \in BOOLEAN : Rehydrate(ok)
    \/ \E i \in 1..MaxInflight, d \in ShortRehydrateData, ok \in BOOLEAN :
            RehydrateOk(i, d, ok)
    \/ \E i \in 1..MaxInflight, o \in {"error", "throw"}, ok \in BOOLEAN :
            RehydrateFail(i, o, ok)
    \/ CallerIdle /\ StoreMemory(MaxStoreCalls)
    \/ \E i \in 1..MaxInflight, o \in Outcomes : StoreReturn(i, o)
    \/ CallerIdle /\ \E k \in Keys : EvolveKnowledge(k, "v1", "preference")
    \/ \E i \in 1..MaxInflight, o \in Outcomes, d \in EvolveData :
            EvolveReturn(i, o, d)
    \/ CallerIdle /\ \E u \in SessionUpdates : UpdateSession(u)
    \/ \E i \in 1..MaxInflight, o \in Outcomes : SessionReturn(i, o)
    \/ CallerIdle /\ \E n \in {1, 2} : ExtractInsights(n)
    \/ \E i \in 1..MaxInflight, o \in Outcomes, d \in BriefInsightData :
            ExtractReturn(i, o, d)

\* Every operation of the memory hook with every outcome of its requests,
\* the identity coming from getUser only.
NextOps ==
    \/ \E u \in Users \cup {NoUser} : InitUser(u)
    \/ \E ok \in BOOLEAN : SignOut(ok)
    \/ \E ok \in BOOLEAN : Rehydrate(ok)
    \/ \E i \in 1..MaxInflight, d \in ShortRehydrateData, ok \in BOOLEAN :
            RehydrateOk(i, d, ok)
    \/ \E i \in 1..MaxInflight, o \in {"error", "throw"}, ok \in BOOLEAN :
            RehydrateFail(i, o, ok)
    \/ CallerIdle /\ StoreMemory(MaxStoreCalls)
    \/ \E i \in 1..MaxInflight, o \in Outcomes : StoreReturn(i, o)
    \/ CallerIdle /\ \E k \in Keys : EvolveKnowledge(k, "v1", "preference")
    \/ \E i \in 1..MaxInflight, o \in Outcomes, d \in EvolveData :
            EvolveReturn(i, o, d)
    \/ CallerIdle /\ \E u \in SessionUpdates : UpdateSession(u)
    \/ \E i \in 1..MaxInflight, o \in Outcomes : SessionReturn(i, o)
    \/ CallerIdle /\ ExtractInsights(2)
    \/ \E i \in 1..MaxInflight, o \in Outcomes, d \in BriefInsightData :
            ExtractReturn(i, o, d)

\* The memory hook's synchronisation with the backend and the cache: auth
\* events, rehydration and storeMemory, with every modelled response body.
NextSync ==
    \/ \E u \in Users \cup {NoUser} : InitUser(u)
    \/ \E u \in Users : SignIn(u)
    \/ \E ok \in BOOLEAN : SignOut(ok)
    \/ \E ok \in BOOLEAN : Rehydrate(ok)
    \/ \E i \in 1..MaxInflight, d \in RehydrateData, ok \in BOOLEAN :
            RehydrateOk(i, d, ok)
    \/ \E i \in 1..MaxInflight, o \in {"error", "throw"}, ok \in BOOLEAN :
            RehydrateFail(i, o, ok)
    \/ CallerIdle /\ StoreMemory(MaxStoreCalls)
    \/ \E i \in 1..MaxInflight, o \in Outcomes : StoreReturn(i, o)

\* The memory hook used for evolveKnowledge over two keys and two values:
\* auth events, successful rehydration, and evolveKnowledge.
NextKnowledge ==
    \/ \E u \in Users \cup {NoUser} : InitUser(u)
    \/ \E u \in Users : SignIn(u)
    \/ \E ok \in BOOLEAN : SignOut(ok)
    \/ \E i \in 1..MaxInflight, d \in ShortRehydrateData, ok \in BOOLEAN :
            RehydrateOk(i, d, ok)
    \/ CallerIdle /\ \E k \in KnowledgeKeys, v \in Values :
            EvolveKnowledge(k, v, "preference")
    \/ \E i \in 1..MaxInflight, o \in Outcomes, d \in EvolveData :
            EvolveReturn(i, o, d)

\* The memory hook used for evolveKnowledge with every shape of
\* 'evolve_knowledge' body.
NextEvolved ==
    \/ \E u \in Users \cup {NoUser} : InitUser(u)
    \/ \E u \in Users : SignIn(u)
    \/ \E ok \in BOOLEAN : SignOut(ok)
    \/ \E i \in 1..MaxInflight, d \in ShortRehydrateData, ok \in BOOLEAN :
            RehydrateOk(i, d, ok)
    \/ CallerIdle /\ \E k \in Keys, v \in Values, t \in {"preference", "behavior"} :
            EvolveKnowledge(k, v, t)
    \/ \E i \in 1..MaxInflight, o \in Outcomes, d \in EvolveBodies :
            EvolveReturn(i, o, d)

\* The memory hook used for updateSession: auth events, rehydration and
\* updateSession.
NextSession ==
    \/ \E u \in Users \cup {NoUser} : InitUser(u)
    \/ \E u \in Users : SignIn(u)
    \/ \E ok \in BOOLEAN : SignOut(ok)
    \/ \E i \in 1..MaxInflight, d \in ShortRehydrateData, ok \in BOOLEAN :
            RehydrateOk(i, d, ok)
    \/ \E i \in 1..MaxInflight, o \in {"error", "throw"}, ok \in BOOLEAN :
            RehydrateFail(i, o, ok)
    \/ CallerIdle /\ \E u \in SessionPatches : UpdateSession(u)
    \/ \E i \in 1..MaxInflight, o \in Outcomes : SessionReturn(i, o)

\* The memory hook used for extractInsights: auth events, a failing
\* 'rehydrate', and extractInsights with the calls it makes.
NextInsights ==
    \/ \E u \in Users \cup {NoUser} : InitUser(u)
    \/ \E u \in Users : SignIn(u)
    \/ \E ok \in BOOLEAN : SignOut(ok)
    \/ \E i \in 1..MaxInflight, o \in {"error", "throw"}, ok \in BOOLEAN :
            RehydrateFail(i, o, ok)
    \/ CallerIdle /\ \E n \in {1, 2} : ExtractInsights(n)
    \/ \E i \in 1..MaxInflight, o \in Outcomes, d \in InsightBodies :
            ExtractReturn(i, o, d)
    \/ \E i \in 1..MaxInflight, o \in Outcomes, d \in EvolveData :
            EvolveReturn(i, o, d)
    \/ \E i \in 1..MaxInflight, o \in Outcomes : StoreReturn(i, o)

\* The memory hook used for storeMemory alone, while the backend's
\* 'rehydrate' action is failing and nothing is cached: the memory list is
\* then written by storeMemory only.
NextStore ==
    \/ \E u \in Users \cup {NoUser} : InitUser(u)
    \/ \E u \in Users : SignIn(u)
    \/ \E ok \in BOOLEAN : SignOut(ok)
    \/ \E i \in 1..MaxInflight, o \in {"error", "throw"}, ok \in BOOLEAN :
            RehydrateFail(i, o, ok)
    \/ CallerIdle /\ StoreMemory(MemoryCap + StoreSlack)
    \/ \E i \in 1..MaxInflight, o \in Outcomes : StoreReturn(i, o)

\* The memory hook used for storeMemory by a caller that does not wait for
\* one call before making the next, the requests completing in any order,
\* while 'rehydrate' is failing and nothing is cached.
NextOverlap ==
    \/ \E u \in Users \cup {NoUser} : InitUser(u)
    \/ \E u \in Users : SignIn(u)
    \/ \E ok \in BOOLEAN : SignOut(ok)
    \/ \E i \in 1..MaxOverlap, o \in {"error", "throw"}, ok \in BOOLEAN :
            RehydrateFail(i, o, ok)
    \/ StoreMemoryOverlapping(MaxOverlap)
    \/ \E i \in 1..MaxOverlap, o \in Outcomes : StoreReturn(i, o)

\* The reasoning hook has not been used since it mounted.
DHUnused ==
    /\ isSovereign = FALSE
    /\ localMemory = <<>>
    /\ lastResult = None
    /\ proc = [p \in Procs |-> IdleProc]

\* The memory hook's mount effect has not resolved and none of its operations
\* has been called.
EMUnused ==
    /\ state = InitialState
    /\ userIdRef = NoUser
    /\ pending = <<>>
    /\ mount = "getUser"
    /\ nextId = 0
    /\ nExtract = 0

\* Every operation of either hook that awaits a remote call, with every
\* outcome of its requests: the memory hook as in NextOps, and MaxProcs
\* process() calls, which may overlap. The hooks share no state (no action
\* of one reads or writes a variable of the other), so a run uses one of them.
NextFailures ==
    \/ DHUnused /\ \E u \in Users \cup {NoUser} : InitUser(u)
    \/ DHUnused /\ \E ok \in BOOLEAN : SignOut(ok)
    \/ DHUnused /\ \E ok \in BOOLEAN : Rehydrate(ok)
    \/ DHUnused /\ \E i \in 1..MaxInflight, d \in ShortRehydrateData,
                       ok \in BOOLEAN : RehydrateOk(i, d, ok)
    \/ DHUnused /\ \E i \in 1..MaxInflight, o \in {"error", "throw"},
                       ok \in BOOLEAN : RehydrateFail(i, o, ok)
    \/ DHUnused /\ CallerIdle /\ StoreMemory(MaxStoreCalls)
    \/ DHUnused /\ \E i \in 1..MaxInflight, o \in Outcomes : StoreReturn(i, o)
    \/ DHUnused /\ CallerIdle
                /\ \E k \in Keys : EvolveKnowledge(k, "v1", "preference")
    \/ DHUnused /\ \E i \in 1..MaxInflight, o \in Outcomes, d \in EvolveData :
                       EvolveReturn(i, o, d)
    \/ DHUnused /\ CallerIdle /\ \E u \in SessionUpdates : UpdateSession(u)
    \/ DHUnused /\ \E i \in 1..MaxInflight, o \in Outcomes : SessionReturn(i, o)
    \/ DHUnused /\ CallerIdle /\ ExtractInsights(2)
    \/ DHUnused /\ \E i \in 1..MaxInflight, o \in Outcomes,
                       d \in BriefInsightData : ExtractReturn(i, o, d)
    \/ EMUnused /\ \E p \in Procs, q \in Queries :
                       proc[p].pc = "idle" /\ ProcessStart(p, q)
    \/ EMUnused /\ \E p \in Procs : PingTimeout(p)
    \/ EMUnused /\ \E p \in Procs : PingHealthy(p)
    \/ EMUnused /\ \E p \in Procs, o \in {"error", "throw"} : PingUnhealthy(p, o)
    \/ EMUnused /\ \E p \in Procs, d \in ChatData : ChatOk(p, d)
    \/ EMUnused /\ \E p \in Procs, o \in {"error", "throw"} : ChatFail(p, o)
    \/ EMUnused /\ \E p \in Procs, d \in SovereignData : SovereignOk(p, d)
    \/ EMUnused /\ \E p \in Procs : SovereignFail(p)

Init == InitDH /\ InitEM

\* Both hooks mounted, in a run that records how each request settled.
NoEvent == [op |-> "none", outcome |-> "none", ending |-> "none"]

InitRecording == InitDH /\ InitEMState(PriorCaches) /\ settled = Some(NoEvent)

\* Both hooks mounted with nothing cached, in a run that keeps the summary.
NoFailure ==
    [op |-> "any", outcome |-> "none", ending |-> "returned", escaped |-> {}]

InitFreshSummary == InitDH /\ InitEMState({None}) /\ settled = Some(NoFailure)

\* The same with nothing cached.
InitFreshRecording == InitDH /\ InitEMState({None}) /\ settled = Some(NoEvent)

\* Both hooks mounted in a browser profile that has no cached snapshot.
InitFresh == InitDH /\ InitEMWith({None})

Next == NextDH \/ NextEM

Spec == Init /\ [][Next]_vars

\* The memory hook alone, every operation, with the 'rehydrate' bodies that
\* respect the memory list's capacity and the brief 'extract_insights' bodies.
SpecEM == Init /\ [][NextEM]_vars

\* The memory hook's synchronisation alone.
SpecSync == Init /\ [][NextSync]_vars

\* The memory hook used for evolveKnowledge only.
SpecKnowledge == InitFreshRecording /\ [][NextKnowledge]_vars

\* The memory hook used for evolveKnowledge only, every response shape.
SpecEvolved == InitFreshRecording /\ [][NextEvolved]_vars

\* The memory hook used for updateSession only.
SpecSession == InitRecording /\ [][NextSession]_vars

\* The memory hook used for extractInsights only.
SpecInsights == InitFreshRecording /\ [][NextInsights]_vars

\* The memory hook alone, every operation, keeping the summary of failures.
SpecRecorded == InitFreshSummary /\ [][NextOps]_vars

\* Either hook, every operation, keeping the summary of failures.
SpecFailures == InitFreshSummary /\ [][NextFailures]_vars

\* The memory hook used for storeMemory only.
SpecStore == InitFresh /\ [][NextStore]_vars

\* The memory hook used for overlapping storeMemory calls only.
SpecOverlap == InitFresh /\ [][NextOverlap]_vars

\* The reasoning hook alone.
SpecDH == InitFresh /\ [][NextDH]_vars

\* Scheduling the runtime guarantees: an armed timer fires. Nothing obliges
\* the network to answer a request.
FairDH == SpecDH /\ \A p \in Procs : WF_vars(PingTimeout(p))

(***************************************************************************)
(* Properties of useDualHemisphere                                         *)
(***************************************************************************)
Calls(p, ep) == Count(proc[p].trace, LAMBDA e : e = ep)

Completed(p) == proc[p].pc \in {"done", "failed"}

\* C1: in a process() call whose health check returned unhealthy, the only
\* reasoning request is one to the sovereign endpoint ('chat' is never
\* invoked), and sovereign mode was already marked when it was sent.
C1_UnhealthyOnlySovereign ==
    \A p \in Procs :
        proc[p].health = "unhealthy" =>
            /\ proc[p].trace = <<"ping", "sovereign">>
            /\ Calls(p, "chat") = 0
            /\ proc[p].sovMarked

C1_Witness ==
    \E p \in Procs :
        /\ proc[p].health = "unhealthy"
        /\ proc[p].pc = "done"
        /\ proc[p].answeredBy = "sovereign"

\* C2: a completed process() call whose health check was healthy and whose
\* primary call returned a structured error or threw has invoked the
\* sovereign endpoint exactly once and the primary endpoint exactly once.
C2_FailoverExactlyOnce ==
    \A p \in Procs :
        (Completed(p) /\ proc[p].primary \in {"error", "throw"}) =>
            /\ Calls(p, "sovereign") = 1
            /\ Calls(p, "chat") = 1

\* C3: the short-term local window never holds more than 10 entries.
C3_WindowAtMostTen == Len(localMemory) <= ContextWindow

\* C4: a health check that has sent its ping always eventually completes
\* (the timeout bounds the wait), so process() gets past the health check.
C4_HealthCheckCompletes ==
    \A p \in Procs : (proc[p].pc = "ping") ~> (proc[p].pc # "ping")

(***************************************************************************)
(* Properties of useEdgeMemory                                             *)
(***************************************************************************)
\* C5: whatever the identity and the outcome of each 'store_memory' request,
\* the memory list is the last min(n, 50) of the n records storeMemory has
\* appended, in the order of the appends, and never longer than 50.
C5_StoreKeepsLastFifty ==
    /\ Len(state.memories) <= MemoryCap
    /\ state.memories = SliceLast(stored, MemoryCap)

C5_Witness ==
    /\ Len(stored) > MemoryCap
    /\ Len(state.memories) = MemoryCap
    /\ state.memories[MemoryCap] = stored[Len(stored)]

\* C6: the memory list holds at most 50 records in every reachable state,
\* those reached by a successful rehydrate or by loading the cache included.
C6_MemoriesAtMostFifty == Len(state.memories) <= MemoryCap

\* What a successful 'rehydrate' body carries, read off the body itself: the
\* empty list, the empty map and no session where the body omits them.
BodyMemories(data) ==
    IF data.context = None \/ data.context[1].memories = None THEN <<>>
    ELSE data.context[1].memories[1]

BodyKnowledge(data) ==
    IF data.context = None \/ data.context[1].knowledge = None THEN EmptyObject
    ELSE data.context[1].knowledge[1]

BodySession(data) ==
    IF data.context = None THEN None ELSE data.context[1].session

\* The step in which a 'rehydrate' request answers successfully leaves the
\* in-memory memories, knowledge and session those of the body, and online.
ReplacedBy(data) ==
    /\ state'.memories = BodyMemories(data)
    /\ state'.knowledge = BodyKnowledge(data)
    /\ state'.session = BodySession(data)
    /\ state'.isOnline

\* The cached snapshot after the step holds what is in memory after it.
CacheMatchesState ==
    /\ cache' # None
    /\ GetOr(cache'[1], "memories", <<>>) = state'.memories
    /\ GetOr(cache'[1], "knowledge", EmptyObject) = state'.knowledge
    /\ GetOr(cache'[1], "session", None) = state'.session

\* C7, as stated: after a rehydrate whose remote call succeeds, memories,
\* knowledge and session are those of the response, isOnline is true, and
\* the cached snapshot holds the same memories, knowledge and session.
C7_RehydrateReplacesAndCaches ==
    [][\A i \in 1..MaxInflight, d \in RehydrateData, ok \in BOOLEAN :
          RehydrateOk(i, d, ok) => (ReplacedBy(d) /\ CacheMatchesState)]_vars

\* C7, amended: after a rehydrate whose remote call succeeds, memories,
\* knowledge and session are those of the response and isOnline is true; the
\* cached snapshot holds the same memories, knowledge and session when
\* localStorage accepts the write, and is left as it was when it throws.
C7_RehydrateReplacesAndCachesIfWritable ==
    [][\A i \in 1..MaxInflight, d \in RehydrateData, ok \in BOOLEAN :
          RehydrateOk(i, d, ok) =>
              /\ ReplacedBy(d)
              /\ ok => CacheMatchesState
              /\ ~ok => cache' = cache]_vars

C7_Witness ==
    /\ state.lastSyncAt = "Date"
    /\ state.isOnline
    /\ state.memories = <<>>
    /\ stored # <<>>
    /\ cache # None
    /\ GetOr(cache[1], "memories", <<>>) = state.memories
    /\ GetOr(cache[1], "session", None) = state.session

\* What the cache holds for loadFromLocalStorage: the default snapshot when
\* nothing is cached or localStorage throws.
CachedSnapshot(blob, ok) ==
    IF ~ok \/ blob = None
    THEN [memories |-> <<>>, knowledge |-> EmptyObject, session |-> None]
    ELSE [memories |-> GetOr(blob[1], "memories", <<>>),
          knowledge |-> GetOr(blob[1], "knowledge", EmptyObject),
          session |-> GetOr(blob[1], "session", None)]

\* C8: after a rehydrate whose remote call returns an error or throws,
\* memories, knowledge and session are what the cache held before the call
\* (the default snapshot when nothing is cached or it cannot be read), and
\* isOnline is false.
C8_FailedRehydrateRestoresCache ==
    [][\A i \in 1..MaxInflight, o \in {"error", "throw"}, ok \in BOOLEAN :
          RehydrateFail(i, o, ok) =>
              /\ state'.memories = CachedSnapshot(cache, ok).memories
              /\ state'.knowledge = CachedSnapshot(cache, ok).knowledge
              /\ state'.session = CachedSnapshot(cache, ok).session
              /\ ~state'.isOnline]_vars

\* C9: whenever the remote call of rehydrate, storeMemory, evolveKnowledge,
\* updateSession or extractInsights returns an error or throws, isOnline is
\* false once the operation has handled it.
C9_OfflineOnAnyRemoteFailure ==
    [][\A i \in 1..MaxInflight, o \in {"error", "throw"} :
          (\/ \E ok \in BOOLEAN : RehydrateFail(i, o, ok)
           \/ StoreReturn(i, o)
           \/ \E d \in EvolveData : EvolveReturn(i, o, d)
           \/ SessionReturn(i, o)
           \/ \E d \in InsightData : ExtractReturn(i, o, d))
          => ~state'.isOnline]_vars

\* C10: isOnline goes from false to true only in a step in which a
\* 'rehydrate' request, sent for a known identity, answers successfully.
C10_OnlineOnlyBySuccessfulRehydrate ==
    [][(~state.isOnline /\ state'.isOnline) =>
          \E i \in 1..Len(pending), d \in RehydrateData, ok \in BOOLEAN :
              /\ pending[i].userId \in Users
              /\ RehydrateOk(i, d, ok)]_vars

C10_Witness ==
    /\ wentOnline
    /\ state.isOnline
    /\ state.lastSyncAt = "Date"

\* The records with content n in the memory list, in the log of appends, and
\* the 'store_memory' requests in flight for it, after a step.
AppendedNext(n) == Count(state'.memories, LAMBDA r : r.content = n)

LoggedNext(n) == Count(stored', LAMBDA r : r.content = n)

InFlightNext(n) ==
    Count(pending', LAMBDA r : r.op = "store_memory" /\ r.memory.content = n)

\* C11: every storeMemory call appends its record exactly once, with
\* confidence 0.5, whatever the identity and the request's outcome: a call's
\* record is either awaiting its one request or appended once, never both
\* and never twice; with no identity no request is sent and the record is
\* appended at once; when the request settles (success, error or rejection)
\* the record is appended and no further request is sent for it.
C11_StoreAppendsExactlyOnce ==
    [][/\ \A n \in 1..nextId' : InFlightNext(n) + LoggedNext(n) = 1
       /\ \A n \in 1..nextId' : AppendedNext(n) <= LoggedNext(n)
       /\ \A k \in 1..Len(state'.memories) :
              state'.memories[k].confidence = DefaultConfidence
       /\ (nextId' = nextId + 1 /\ userIdRef = NoUser) =>
              /\ pending' = pending
              /\ AppendedNext(nextId') = 1
              /\ state'.memories[Len(state'.memories)] =
                    Spread(MemoryInput(nextId'), [confidence |-> 50])
       /\ (nextId' = nextId + 1 /\ userIdRef # NoUser) =>
              /\ Len(pending') = Len(pending) + 1
              /\ InFlightNext(nextId') = 1
              /\ state' = state
       /\ \A i \in 1..MaxInflight, o \in Outcomes :
              StoreReturn(i, o) =>
                  /\ AppendedNext(pending[i].memory.content) = 1
                  /\ InFlightNext(pending[i].memory.content) = 0
                  /\ state'.memories[Len(state'.memories)] =
                        Spread(pending[i].memory, [confidence |-> 50])]_vars

C11_Witness ==
    /\ userIdRef # NoUser
    /\ pending = <<>>
    /\ nextId >= 2
    /\ Len(stored) = nextId
    /\ stored[nextId].content = nextId

\* C12: with no identity, evolveKnowledge(key, v) sends no request and
\* leaves the entry at key with value v, confidence 0.5 and observations 1,
\* whatever was there before (a repeated call overwrites, observations do
\* not accumulate); every other key's entry is unchanged.
C12_AnonymousEvolveSeeds ==
    [][\A k \in KnowledgeKeys, v \in Values :
          (userIdRef = NoUser /\ EvolveKnowledge(k, v, "preference")) =>
              /\ pending' = pending
              /\ DOMAIN state'.knowledge = DOMAIN state.knowledge \cup {k}
              /\ state'.knowledge[k].value = v
              /\ state'.knowledge[k].confidence = 50
              /\ state'.knowledge[k].observations = 1
              /\ \A other \in DOMAIN state.knowledge \ {k} :
                    state'.knowledge[other] = state.knowledge[other]]_vars

C12_Witness ==
    /\ userIdRef = NoUser
    /\ state.lastSyncAt = "Date"
    /\ DOMAIN state.knowledge = KnowledgeKeys
    /\ state.knowledge["k1"].value = "v2"
    /\ state.knowledge["k1"].observations = 1
    /\ state.knowledge["k2"].value = "v1"

\* C13: with an identity, when the 'evolve_knowledge' request returns an
\* error, answers without an 'evolved' payload, or rejects, evolveKnowledge
\* leaves the knowledge map as it was and returns normally.
C13_FailedEvolveKeepsKnowledge ==
    [][\A i \in 1..MaxInflight, o \in Outcomes, d \in EvolveData :
          (EvolveReturn(i, o, d) /\ (o # "ok" \/ d.evolved = None)) =>
              /\ state'.knowledge = state.knowledge
              /\ pending' = RemoveAt(pending, i)
              /\ settled'[1].ending = "returned"]_vars

C13_Witness ==
    /\ settled[1].op = "evolve_knowledge"
    /\ settled[1].outcome \in {"error", "throw"}
    /\ settled[1].ending = "returned"
    /\ userIdRef # NoUser
    /\ "k1" \in DOMAIN state.knowledge
    /\ state.knowledge["k1"] = RemoteKnowledge["k1"]

\* C14: with an identity, when the 'evolve_knowledge' request succeeds with
\* an 'evolved' payload, the entry at key gets the call's value and type, the
\* last element of the returned trajectory as confidence and the returned
\* count as observations; for every such payload (trajectory missing or
\* empty, count missing or zero included) the confidence is a defined number
\* and observations is at least 1.
C14_EvolvedEntryWellFormed ==
    [][\A i \in 1..MaxInflight, d \in EvolveBodies :
          (EvolveReturn(i, "ok", d) /\ d.evolved # None) =>
              LET r == pending[i]
                  e == d.evolved[1]
                  entry == state'.knowledge[r.key]
              IN  /\ entry.value = r.value
                  /\ entry.type = r.type
                  /\ (e.confidence_trajectory # None
                        /\ Len(e.confidence_trajectory[1]) > 0) =>
                        entry.confidence =
                           e.confidence_trajectory[1][Len(e.confidence_trajectory[1])]
                  /\ e.observations_count >= 1 =>
                        entry.observations = e.observations_count
                  /\ entry.confidence # UndefNum
                  /\ entry.observations >= 1]_vars

\* C15: with an identity and a local session, when the 'sync_session'
\* request returns an error or rejects, the update is not merged: the local
\* session is as it was before the call.
C15_FailedSyncKeepsSession ==
    [][\A i \in 1..MaxInflight, o \in {"error", "throw"} :
          (SessionReturn(i, o) /\ state.session # None) =>
              state'.session = state.session]_vars

\* The calls a successful 'extract_insights' body asks for, read off the
\* body: preferences above 0.6, then patterns above 0.5, then every fact.
ExpectedEvolves(items, threshold, type) ==
    LET kept == SelectSeq(items, LAMBDA it : it.confidence > threshold)
    IN  [k \in 1..Len(kept) |->
            [kind |-> "evolve", key |-> kept[k].key, value |-> kept[k].value,
             type |-> type]]

ExpectedStores(facts) ==
    [k \in 1..Len(facts) |->
        [kind |-> "store",
         memory |-> [memoryType |-> "insight", content |-> facts[k].content,
                     importance |-> facts[k].importance, topicTags |-> <<>>]]]

ExpectedCalls(insights) ==
    ExpectedEvolves(insights.preferences, 60, "preference")
        \o ExpectedEvolves(insights.patterns, 50, "behavior")
        \o ExpectedStores(insights.facts)

\* The request sent for a call of the loops.
RequestOf(call) ==
    IF call.kind = "evolve"
    THEN [op |-> "evolve_knowledge", key |-> call.key, value |-> call.value,
          type |-> call.type]
    ELSE [op |-> "store_memory", memory |-> call.memory]

Matches(request, call) ==
    /\ request.op = RequestOf(call).op
    /\ IF call.kind = "evolve"
       THEN /\ request.key = call.key
            /\ request.value = call.value
            /\ request.type = call.type
       ELSE request.memory = call.memory

\* After request i settled with calls still to make, the step sent exactly
\* the first of them (none when there is none), the others waiting behind it
\* in their order; with no identity left they were all applied locally.
IssuedNext(i, calls) ==
    IF Len(calls) = 0 \/ userIdRef = NoUser
    THEN pending' = RemoveAt(pending, i)
    ELSE /\ Len(pending') = Len(pending)
         /\ SubSeq(pending', 1, Len(pending) - 1) = RemoveAt(pending, i)
         /\ Matches(pending'[Len(pending')], Head(calls))
         /\ pending'[Len(pending')].rest = Tail(calls)

\* C16: for a successful 'extract_insights' body, extractInsights makes, one
\* after another and in this order, an evolve call of type 'preference' for
\* each preference with confidence above 0.6, an evolve call of type
\* 'behavior' for each pattern with confidence above 0.5, and a storeMemory
\* call of type 'insight' for every fact, and no other call: each call is
\* sent when the one before it has settled, whatever its outcome.
C16_InsightCallsInOrder ==
    [][/\ \A i \in 1..MaxInflight, d \in InsightBodies :
            (ExtractReturn(i, "ok", d) /\ d.success /\ d.insights # None) =>
                IssuedNext(i, ExpectedCalls(d.insights[1]))
       /\ \A i \in 1..MaxInflight, o \in Outcomes, d \in InsightBodies :
            (ExtractReturn(i, o, d) /\ ~(o = "ok" /\ d.success /\ d.insights # None)) =>
                IssuedNext(i, <<>>)
       /\ \A i \in 1..MaxInflight, o \in Outcomes :
            StoreReturn(i, o) => IssuedNext(i, pending[i].rest)
       /\ \A i \in 1..MaxInflight, o \in Outcomes, d \in EvolveData :
            EvolveReturn(i, o, d) => IssuedNext(i, pending[i].rest)
       /\ ExpectedCalls(FactsOnlyBody.insights[1]) =
             ExpectedStores(FactsOnlyBody.insights[1].facts)]_vars

C16_Witness ==
    /\ pending = <<>>
    /\ userIdRef # NoUser
    /\ settled[1].op = "store_memory"
    /\ Len(state.memories) = 3
    /\ \A k \in 1..3 : state.memories[k].content = 0 - (100 + k)
    /\ \A k \in 1..3 : state.memories[k].memoryType = "insight"
    /\ state.knowledge = EmptyObject

\* C17: when the sovereign endpoint returns an error or throws, the failure
\* leaves process() with no further fallback call, the local window and
\* lastResult are as they were; the window grows by the exchange only in a
\* step in which the sovereign (or primary) call succeeds.
C17_SovereignFailurePropagates ==
    [][/\ \A p \in Procs :
            SovereignFail(p) =>
                /\ proc'[p].pc = "failed"
                /\ proc'[p].trace = proc[p].trace
                /\ localMemory' = localMemory
                /\ lastResult' = lastResult
       /\ Len(localMemory') > Len(localMemory) =>
            \E p \in Procs :
                \/ \E d \in SovereignData : SovereignOk(p, d)
                \/ \E d \in ChatData : ChatOk(p, d)]_vars

\* C18: a failed remote call never reaches the caller of a memory-hook
\* operation as an exception: rehydrate, storeMemory, evolveKnowledge,
\* updateSession and extractInsights return normally whether their requests
\* succeed, return an error or reject. The only requests whose failure
\* reaches a caller are 'sovereign-fallback' requests of process(), and a
\* process() call fails only right after one, made outside the try block.
C18_OnlySovereignPathFails ==
    /\ settled # None
    /\ settled[1].escaped \subseteq {"sovereign-fallback"}
    /\ DHUnused => settled[1].ending = "returned"
    /\ \A p \in Procs :
          proc[p].pc = "failed" =>
              /\ "sovereign-fallback" \in settled[1].escaped
              /\ proc[p].trace[Len(proc[p].trace)] = "sovereign"
              /\ proc[p].health = "unhealthy" \/ proc[p].primary # "ok"

C18_Witness ==
    /\ settled[1].outcome = "failed"
    /\ settled[1].ending = "returned"
    /\ pending = <<>>
    /\ nExtract > 0
    /\ nextId > 0
    /\ state.isOnline

\* The cached snapshot after the step holds the memories, knowledge and
\* session of the 'rehydrate' body.
CacheHolds(data) ==
    /\ cache' # None
    /\ GetOr(cache'[1], "memories", <<>>) = BodyMemories(data)
    /\ GetOr(cache'[1], "knowledge", EmptyObject) = BodyKnowledge(data)
    /\ GetOr(cache'[1], "session", None) = BodySession(data)

\* The step settles the 'rehydrate' request i.
RehydrateSettles(i) ==
    /\ i \in 1..Len(pending)
    /\ pending[i].op = "rehydrate"
    /\ pending' = RemoveAt(pending, i)

\* The step is a successful answer to a 'rehydrate' request.
SomeRehydrateOk ==
    \E i \in 1..MaxInflight, d \in ShortRehydrateData, ok \in BOOLEAN :
        RehydrateOk(i, d, ok)

\* C19, as stated: the cache is written only by a rehydrate whose request
\* succeeded, every other operation leaving it unchanged, and after such a
\* rehydrate its memories, knowledge and session are those of the response.
C19_CacheIsLastSuccessfulRehydrate ==
    [][/\ cache' # cache => SomeRehydrateOk
       /\ \A i \in 1..MaxInflight :
             RehydrateSettles(i) =>
                 \A d \in ShortRehydrateData, ok \in BOOLEAN :
                     CacheHolds(d) \/ ~RehydrateOk(i, d, ok)]_vars

\* C19, amended: the cache is written only by a rehydrate whose request
\* succeeded, every other operation leaving it unchanged; after such a
\* rehydrate its memories, knowledge and session are those of the response
\* when localStorage accepted the write, and the cache is as it was before
\* when localStorage threw.
C19_CacheIsLastSavedRehydrate ==
    [][/\ cache' # cache => SomeRehydrateOk
       /\ \A i \in 1..MaxInflight :
             RehydrateSettles(i) =>
                 \A d \in ShortRehydrateData :
                     /\ (CacheHolds(d) \/ ~RehydrateOk(i, d, TRUE))
                     /\ (cache' = cache \/ ~RehydrateOk(i, d, FALSE))]_vars

C19_Witness ==
    /\ cache # None
    /\ state.lastSyncAt = "Date"
    /\ GetOr(cache[1], "memories", <<>>) = RemoteMemories(1)
    /\ Len(state.memories) = 2
    /\ state.memories[2].content = 1
    /\ GetOr(cache[1], "knowledge", EmptyObject) = RemoteKnowledge

\* C20: updateSession never creates a session: an absent session is absent
\* after the 'sync_session' request settles, a successful one included; with
\* a session and a successful request the session becomes the update laid
\* over the existing fields; with no identity updateSession sends nothing and
\* changes nothing.
C20_UpdateSessionNeverCreates ==
    [][/\ \A i \in 1..MaxInflight, o \in Outcomes :
            (SessionReturn(i, o) /\ state.session = None) =>
                state'.session = None
       /\ \A i \in 1..MaxInflight :
            (SessionReturn(i, "ok") /\ state.session # None) =>
                LET old == state.session[1]
                    upd == pending[i].updates
                IN  /\ state'.session # None
                    /\ DOMAIN state'.session[1] = DOMAIN old \cup DOMAIN upd
                    /\ \A f \in DOMAIN upd : state'.session[1][f] = upd[f]
                    /\ \A f \in DOMAIN old \ DOMAIN upd :
                          state'.session[1][f] = old[f]
       /\ \A u \in SessionPatches :
            (UpdateSession(u) /\ userIdRef = NoUser) =>
                /\ pending' = pending
                /\ state' = state]_vars

C20_Witness ==
    /\ settled[1].op = "sync_session"
    /\ settled[1].outcome = "ok"
    /\ state.session # None
    /\ state.session[1].verbosityPreference = "long"
    /\ state.session[1].pendingTopics = <<>>
    /\ state.session[1].communicationStyle = "casual"
    /\ state.session[1].totalInteractions = 4

\* The 'rehydrate' request i was sent for an identity that is no longer the
\* current one (a sign-out or another sign-in came in between).
SentForFormerIdentity(i) ==
    /\ i \in 1..Len(pending)
    /\ pending[i].op = "rehydrate"
    /\ pending[i].userId # userIdRef

\* C21: a successful 'rehydrate' response that arrives after the identity has
\* changed is not applied: the step that handles it leaves the in-memory
\* memories, knowledge and session and the cache as they were, and does not
\* bring isOnline to true while no identity is known.
C21_LateRehydrateNotApplied ==
    [][\A i \in 1..MaxInflight :
          SentForFormerIdentity(i) =>
              \A d \in RehydrateData, ok \in BOOLEAN :
                  RehydrateOk(i, d, ok) =>
                      /\ state'.memories = state.memories
                      /\ state'.knowledge = state.knowledge
                      /\ state'.session = state.session
                      /\ cache' = cache
                      /\ (userIdRef = NoUser /\ state'.isOnline) =>
                            state.isOnline]_vars

\* A 'store_memory' request is in flight.
StoreInFlight == \E i \in 1..Len(pending) : pending[i].op = "store_memory"

\* C22: overlapping storeMemory calls lose no append: with at most 50 calls
\* made, their requests in flight together and completing in any order, once
\* none is in flight the record of every call is in the memory list exactly
\* once.
C22_OverlappingStoresLoseNothing ==
    (nextId <= MemoryCap /\ ~StoreInFlight) =>
        \A n \in 1..nextId :
            Count(state.memories, LAMBDA r : r.content = n) = 1

\* Three calls were in flight together and completed in the reverse order.
C22_Witness ==
    /\ ~StoreInFlight
    /\ nextId = 3
    /\ userIdRef # NoUser
    /\ Len(state.memories) = 3
    /\ state.memories[1].content = 3
    /\ state.memories[2].content = 2
    /\ state.memories[3].content = 1

\* C23: process() routes on the health check and the primary call's outcome
\* only: whatever isSovereign is (forceSovereign(true) included), a healthy
\* check is followed by the 'chat' request and sets isSovereign to false; and
\* when a process() call returns, isSovereign is true exactly when the
\* result it returns came from the sovereign endpoint.
C23_SovereignFlagTracksRoute ==
    [][\A p \in Procs :
          /\ PingHealthy(p) =>
                /\ ~isSovereign'
                /\ proc'[p].trace = <<"ping", "chat">>
          /\ \A d \in ChatData : ChatOk(p, d) => ~isSovereign'
          /\ \A d \in SovereignData : SovereignOk(p, d) => isSovereign']_vars

\* The reasoning requests ('chat', 'sovereign-fallback') among the requests
\* of the process() call in slot p; the ping carries no session id.
ReasoningRequests(p) ==
    {k \in 1..Len(proc[p].trace) : proc[p].trace[k] # "ping"}

\* C24: every reasoning request of one useDualHemisphere instance carries
\* the same session id, whether or not the hook was given a sessionId: the
\* 'chat' and 'sovereign-fallback' requests of one process() call, and those
\* of the other calls.
C24_OneSessionIdPerInstance ==
    \A arg \in SessionIdArgs :
        \A p \in Procs, q \in Procs :
            \A k \in ReasoningRequests(p), l \in ReasoningRequests(q) :
                SessionIdSent(arg, p, k) = SessionIdSent(arg, q, l)

====
